---- MODULE Spec2Model ----
(***************************************************************************)
(* The batched remote-scrape-and-incrementally-persist pipeline of the     *)
(* ENF installer scripts, in its three variants:                           *)
(*   "detail"  - scrape_installer/enf_detail_scraper.py                    *)
(*   "missing" - vibecode_junior_1/enf_rescrape_missing.py                 *)
(*   "wecp"    - scrape_installer/enf_rescrape_wecp.py                     *)
(* Strings that the code takes apart (URLs, domains, the pipe-joined       *)
(* lists) are sequences of one-character strings; strings that the code    *)
(* only copies or tests for emptiness are TLA+ strings.  Python's 0-based  *)
(* list positions are the model's 1-based positions.                       *)
(***************************************************************************)
EXTENDS Integers, Sequences, FiniteSets, TLC

(***************************************************************************)
(* Bounds of the model.                                                    *)
(***************************************************************************)
\* the largest number of records in the store file at load
MaxRecords == 2
\* BATCH_SIZE is drawn from 1..MaxBatch (the scripts fix it at 100 or 200)
MaxBatch == 2
\* the 5 s sleeps of the polling loop are counted modulo ClockMod
ClockMod == 2

(***************************************************************************)
(* Character strings.                                                      *)
(***************************************************************************)
Min(a, b) == IF a <= b THEN a ELSE b

UpperCase == <<"A","B","C","D","E","F","G","H","I","J","K","L","M",
               "N","O","P","Q","R","S","T","U","V","W","X","Y","Z">>

LowerCase == <<"a","b","c","d","e","f","g","h","i","j","k","l","m",
               "n","o","p","q","r","s","t","u","v","w","x","y","z">>

Digits == <<"0","1","2","3","4","5","6","7","8","9">>

\* str.isspace() for one character
IsSpace(c) == c \in {" ", "\t", "\n", "\r"}

\* str.lower() for one character
LowerChar(c) ==
  IF \E i \in 1..26 : UpperCase[i] = c
    THEN LowerCase[CHOOSE i \in 1..26 : UpperCase[i] = c]
    ELSE c

\* str.lower()
Lower(s) == [i \in 1..Len(s) |-> LowerChar(s[i])]

\* s[n:] for 0 <= n
Drop(s, n) == IF n >= Len(s) THEN <<>> ELSE SubSeq(s, n + 1, Len(s))

\* s[:n] for 0 <= n
Take(s, n) == SubSeq(s, 1, Min(n, Len(s)))

\* str.startswith(p)
StartsWith(s, p) == Len(s) >= Len(p) /\ SubSeq(s, 1, Len(p)) = p

\* str.strip()
Strip(s) ==
  LET keep == {i \in 1..Len(s) : ~IsSpace(s[i])}
  IN  IF keep = {} THEN <<>>
      ELSE SubSeq(s, CHOOSE i \in keep : \A j \in keep : i <= j,
                     CHOOSE i \in keep : \A j \in keep : i >= j)

\* the position of the first character of s that is in cs, or Len(s) + 1
FindFirst(s, cs) ==
  LET hits == {i \in 1..Len(s) : s[i] \in cs}
  IN  IF hits = {} THEN Len(s) + 1 ELSE CHOOSE i \in hits : \A j \in hits : i <= j

\* sep.join(parts)
RECURSIVE Join(_, _)
Join(parts, sep) ==
  IF parts = <<>> THEN <<>>
  ELSE IF Len(parts) = 1 THEN parts[1]
  ELSE parts[1] \o sep \o Join(Tail(parts), sep)

\* s.split(sep) for a one-character sep
RECURSIVE Split(_, _)
Split(s, sep) ==
  LET i == FindFirst(s, {sep})
  IN  IF i > Len(s) THEN <<s>>
      ELSE <<Take(s, i - 1)>> \o Split(Drop(s, i), sep)

\* str(n) for 0 <= n <= 9
IntStr(n) == Digits[n + 1]

\* int(s) of a one-digit string, -1 when s is no digit (int() raises)
StrInt(s) ==
  IF \E i \in 1..10 : Digits[i] = s
    THEN (CHOOSE i \in 1..10 : Digits[i] = s) - 1
    ELSE -1

(***************************************************************************)
(* urllib.parse.urlparse(url).netloc and the two domain normalizers.       *)
(***************************************************************************)
SchemeChars ==
  {UpperCase[i] : i \in 1..26} \cup {LowerCase[i] : i \in 1..26}
    \cup {Digits[i] : i \in 1..10} \cup {"+", "-", "."}

Letters == {UpperCase[i] : i \in 1..26} \cup {LowerCase[i] : i \in 1..26}

\* the url with its scheme and the colon after it removed (urlsplit)
AfterScheme(url) ==
  LET i == FindFirst(url, {":"})
  IN  IF /\ i > 1
         /\ i <= Len(url)
         /\ url[1] \in Letters
         /\ \A j \in 1..(i - 1) : url[j] \in SchemeChars
        THEN Drop(url, i)
        ELSE url

\* urlparse(url).netloc; urlparse raises ValueError on an unbalanced bracket
NetlocRaises(url) ==
  LET rest == AfterScheme(url)
      loc  == IF StartsWith(rest, <<"/", "/">>)
                THEN Take(Drop(rest, 2), FindFirst(Drop(rest, 2), {"/", "?", "#"}) - 1)
                ELSE <<>>
      hasL == \E i \in 1..Len(loc) : loc[i] = "["
      hasR == \E i \in 1..Len(loc) : loc[i] = "]"
  IN  hasL # hasR

Netloc(url) ==
  LET rest == AfterScheme(url)
  IN  IF StartsWith(rest, <<"/", "/">>)
        THEN Take(Drop(rest, 2), FindFirst(Drop(rest, 2), {"/", "?", "#"}) - 1)
        ELSE <<>>

HttpPrefix == <<"h","t","t","p",":","/","/">>

HttpsPrefix == <<"h","t","t","p","s",":","/","/">>

WwwPrefix == <<"w","w","w",".">>

\* normalize_domain of enf_detail_scraper.py and enf_rescrape_missing.py
normalize_domain(url) ==
  IF Strip(url) = <<>> THEN <<>>
  ELSE
    LET u0 == Strip(url)
        u  == IF StartsWith(u0, HttpPrefix) \/ StartsWith(u0, HttpsPrefix)
                THEN u0 ELSE HttpsPrefix \o u0
    IN  IF NetlocRaises(u) THEN <<>>
        ELSE
          LET d0 == Lower(Netloc(u))
              d1 == IF StartsWith(d0, WwwPrefix) THEN Drop(d0, 4) ELSE d0
          IN  IF \E i \in 1..Len(d1) : d1[i] = ":"
                THEN Split(d1, ":")[1]
                ELSE d1

\* extract_domain of enf_rescrape_wecp.py
extract_domain(url) ==
  IF url = <<>> THEN <<>>
  ELSE IF NetlocRaises(url) THEN <<>>
  ELSE
    LET d0 == Netloc(url)
    IN  IF StartsWith(d0, WwwPrefix) THEN Drop(d0, 4) ELSE d0

(***************************************************************************)
(* Records, the store file and the values the model draws from.            *)
(***************************************************************************)
\* base_cols of get_fieldnames: the full header of an enriched store
BaseCols ==
  <<"company_name", "area", "battery_storage", "detail_url", "source_page",
    "website_url_primary", "website_domain_primary", "phone", "address",
    "website_count", "website_urls_all", "website_domains_all">>

\* the header that remove_columns.py leaves
ShortCols == SubSeq(BaseCols, 1, 9)

\* COLUMNS_TO_REMOVE of remove_columns.py
MultiFields == {"website_count", "website_urls_all", "website_domains_all"}

IdentityFields ==
  {"company_name", "area", "battery_storage", "detail_url", "source_page"}

AllFields == {BaseCols[i] : i \in 1..Len(BaseCols)}

\* the fields whose values are character sequences
SeqFields ==
  {"website_url_primary", "website_domain_primary",
   "website_urls_all", "website_domains_all"}

\* the empty string of a field
Blank(f) == IF f \in SeqFields THEN <<>> ELSE ""

\* entry.get(f) is truthy
Has(r, f) == r[f] # Blank(f)

Range(s) == {s[i] : i \in 1..Len(s)}

SeqsUpTo(S, n) == UNION {[1..k -> S] : k \in 0..n}

UrlOld == <<"h","t","t","p",":","/","/","o","l","d",".","n","e","t">>

UrlAlt == <<"h","t","t","p",":","/","/","a","l","t",".","i","o">>

UrlFoo == <<"h","t","t","p",":","/","/","F","o","o",".","c","o","m">>

UrlBar == <<"h","t","t","p","s",":","/","/","w","w","w",".","b","a","r",".","o","r","g",":","8","0","8","0","/","x">>

Pipe == <<"|">>

\* a row as csv.DictReader returns it under the full header
Row(name, url, page, wup, phone, addr, all) ==
  [company_name |-> name, area |-> "CA", battery_storage |-> "Yes",
   detail_url |-> url, source_page |-> page,
   website_url_primary |-> wup,
   website_domain_primary |-> normalize_domain(wup),
   phone |-> phone, address |-> addr,
   website_count |-> IF Len(all) > 1 THEN IntStr(Len(all)) ELSE "",
   website_urls_all |-> IF Len(all) > 1 THEN Join(all, Pipe) ELSE <<>>,
   website_domains_all |->
     IF Len(all) > 1
       THEN Join([i \in 1..Len(all) |-> normalize_domain(all[i])], Pipe)
       ELSE <<>>,
   keys |-> AllFields]

\* the rows a store file is made of
RecordPool ==
  { Row("c1", "u1", "2", <<>>, "", "", <<>>),
    Row("c2", "u2", "1", UrlOld, "555-1234", "a1", <<>>),
    Row("c3", "u3", "1", UrlOld, "", "", <<UrlOld, UrlAlt>>),
    Row("c4", "", "x", <<>>, "", "", <<>>),
    Row("c5", "", "1", UrlOld, "", "", <<UrlOld, UrlAlt>>) }

\* what the page function returns for one request
Item(websites, phone, addr) ==
  [kind |-> "item", websites |-> websites, phone |-> phone, address |-> addr]

\* a dataset item of a failed request: it carries no url and no entryIndex
ErrItem == [kind |-> "error", websites |-> <<>>, phone |-> "", address |-> ""]

\* no dataset item for the request
NoItem == [kind |-> "none", websites |-> <<>>, phone |-> "", address |-> ""]

ItemPool ==
  { Item(<<>>, "", ""),
    Item(<<UrlFoo>>, "555-9999", ""),
    Item(<<UrlFoo, UrlBar>>, "", "a9") }

Outcomes == ItemPool \cup {ErrItem, NoItem}

Terminal == {"SUCCEEDED", "FAILED", "ABORTED", "TIMED-OUT"}

Variants == {"detail", "missing", "wecp"}

\* the row with the columns outside the header removed
RowUnder(r, header) ==
  [f \in DOMAIN r |->
     IF f = "keys" THEN Range(header)
     ELSE IF f \in Range(header) THEN r[f] ELSE Blank(f)]

\* the files remove_columns.py can have written have no multi-website value
FitsHeader(r, header) == \A f \in AllFields \ Range(header) : ~Has(r, f)

(***************************************************************************)
(* The pure functions of the three scripts.                                *)
(***************************************************************************)
\* int(row.get("source_page", 0)), 0 when int() raises
PageInt(s) == IF StrInt(s) >= 0 THEN StrInt(s) ELSE 0

\* list.sort(key = source page) is stable: r goes after the rows that are not larger
InsertByPage(sorted, r) ==
  LET k == Cardinality({i \in 1..Len(sorted) :
                          PageInt(sorted[i].source_page) <= PageInt(r.source_page)})
  IN  SubSeq(sorted, 1, k) \o <<r>> \o SubSeq(sorted, k + 1, Len(sorted))

RECURSIVE read_and_sort_csv(_)
read_and_sort_csv(rows) ==
  IF rows = <<>> THEN <<>>
  ELSE InsertByPage(read_and_sort_csv(SubSeq(rows, 1, Len(rows) - 1)), rows[Len(rows)])

\* existing_cols of get_fieldnames without the base columns
ExtraCols(es) == UNION {es[i].keys : i \in 1..Len(es)} \ Range(BaseCols)

\* the orders in which a loop over the set S can yield its members
Orders(S) == {o \in [1..Cardinality(S) -> S] : Range(o) = S}

\* get_fieldnames: the lists it can return, which are every base column in
\* the order of base_cols, then the other columns in the order "for col in
\* existing_cols" yields them; existing_cols is a set, whose iteration order
\* is any order
get_fieldnames(es) == {BaseCols \o o : o \in Orders(ExtraCols(es))}

\* the members of the set of positions S that are at most n, in ascending order
RECURSIVE Ascending(_, _)
Ascending(S, n) ==
  IF n = 0 THEN <<>>
  ELSE Ascending(S, n - 1) \o (IF n \in S THEN <<n>> ELSE <<>>)

\* get_missing_indices
get_missing_indices(es) ==
  Ascending({i \in 1..Len(es) : ~Has(es[i], "website_url_primary")}, Len(es))

\* multi_website_indices of enf_rescrape_wecp.py
multi_website_indices(rows) ==
  Ascending({i \in 1..Len(rows) :
               /\ "website_count" \in rows[i].keys
               /\ rows[i].website_count \notin {"", "0", "1"}}, Len(rows))

\* math.ceil(n / b)
CeilDiv(n, b) == (n + b - 1) \div b

\* the start of the wecp script's 0-based batch number, taken for a 1-based one
StartIdx_ZeroBased(k, b) == k * b

\* start_idx and end_idx of batch number k (1-based k, as in the detail and
\* missing scripts; the wecp script counts from 0 and computes the same slice)
StartIdx(k, b) == (k - 1) * b

EndIdx(k, b, n) == Min(StartIdx(k, b) + b, n)

\* missing_indices[start_idx:end_idx], urls_to_scrape[batch_start:batch_end]
\* and range(start_idx, min(end_idx, len(entries)))
BatchSlice(list, k, b) ==
  SubSeq(list, StartIdx(k, b) + 1, EndIdx(k, b, Len(list)))

\* prepare_urls_for_batch and prepare_urls: the positions with a detail_url
RECURSIVE prepare_urls(_, _)
prepare_urls(es, indices) ==
  IF indices = <<>> THEN <<>>
  ELSE (IF es[Head(indices)].detail_url # "" THEN <<Head(indices)>> ELSE <<>>)
         \o prepare_urls(es, Tail(indices))

\* the entry after one result is merged into it by update_entries_with_results
MergeDetail(entry, websites, phone, address) ==
  LET e1 == IF websites # <<>>
              THEN [entry EXCEPT
                      !.website_url_primary = websites[1],
                      !.website_domain_primary = normalize_domain(websites[1])]
              ELSE [entry EXCEPT
                      !.website_url_primary = <<>>,
                      !.website_domain_primary = <<>>]
      e2 == IF Len(websites) > 1
              THEN [e1 EXCEPT
                      !.website_count = IntStr(Len(websites)),
                      !.website_urls_all = Join(websites, Pipe),
                      !.website_domains_all =
                        Join([i \in 1..Len(websites) |-> normalize_domain(websites[i])], Pipe),
                      !.keys = @ \cup MultiFields]
              ELSE e1
  IN  [e2 EXCEPT
         !.phone = phone, !.address = address,
         !.keys = @ \cup {"website_url_primary", "website_domain_primary",
                          "phone", "address"}]

\* results.get(detail_url, {}) of update_entries_with_results
ResultFor(res, key) == IF key \in DOMAIN res THEN res[key] ELSE NoItem

\* update_entries_with_results: the entries after the merge
update_entries_with_results_WholeStore(es, res, start_idx, end_idx) ==
  [i \in 1..Len(es) |->
     LET r == ResultFor(res, es[i].detail_url)
     IN  MergeDetail(es[i], r.websites, r.phone, r.address)]
update_entries_with_results(es, res, start_idx, end_idx) ==
  [i \in 1..Len(es) |->
     IF start_idx < i /\ i <= Min(end_idx, Len(es))
       THEN LET r == ResultFor(res, es[i].detail_url)
            IN  MergeDetail(es[i], r.websites, r.phone, r.address)
       ELSE es[i]]

\* update_entries_with_results: the number it returns
updated_with_results(es, res, start_idx, end_idx) ==
  Cardinality({i \in 1..Len(es) :
                 /\ start_idx < i /\ i <= Min(end_idx, Len(es))
                 /\ ResultFor(res, es[i].detail_url).websites # <<>>})

\* a merge that adds the websites to the ones the entry already lists
MergeMissing_Appending(entry, websites, phone, address) ==
  IF websites = <<>> THEN entry
  ELSE [entry EXCEPT
          !.website_url_primary = websites[1],
          !.website_domain_primary = normalize_domain(websites[1]),
          !.website_urls_all =
            IF @ = <<>> THEN Join(websites, Pipe) ELSE @ \o Pipe \o Join(websites, Pipe),
          !.keys = @ \cup MultiFields \cup {"website_url_primary", "website_domain_primary"}]

\* the entry after one result is merged into it by update_entries
MergeMissing(entry, websites, phone, address) ==
  LET e1 == IF websites # <<>>
              THEN [entry EXCEPT
                      !.website_url_primary = websites[1],
                      !.website_domain_primary = normalize_domain(websites[1]),
                      !.keys = @ \cup {"website_url_primary", "website_domain_primary"}]
              ELSE entry
      e2 == IF Len(websites) > 1
              THEN [e1 EXCEPT
                      !.website_count = IntStr(Len(websites)),
                      !.website_urls_all = Join(websites, Pipe),
                      !.website_domains_all =
                        Join([i \in 1..Len(websites) |-> normalize_domain(websites[i])], Pipe),
                      !.keys = @ \cup MultiFields]
              ELSE e1
      e3 == IF phone # "" /\ ~Has(e2, "phone")
              THEN [e2 EXCEPT !.phone = phone, !.keys = @ \cup {"phone"}] ELSE e2
  IN  IF address # "" /\ ~Has(e3, "address")
        THEN [e3 EXCEPT !.address = address, !.keys = @ \cup {"address"}] ELSE e3

\* update_entries: the entries after the merge
update_entries(es, res) ==
  [i \in 1..Len(es) |->
     IF i \in DOMAIN res
       THEN MergeMissing(es[i], res[i].websites, res[i].phone, res[i].address)
       ELSE es[i]]

\* a count of every result, with or without a website
updated_entries_AllResults(es, res) == Cardinality(DOMAIN res)

\* update_entries: the number it returns
updated_entries(es, res) ==
  Cardinality({i \in DOMAIN res : res[i].websites # <<>>})

\* the wecp script's "Update rows" loop over one batch
update_rows(rows, res, batch) ==
  [i \in 1..Len(rows) |->
     IF /\ i \in Range(batch)
        /\ rows[i].detail_url \in DOMAIN res
        /\ Strip(IF res[rows[i].detail_url].websites = <<>> THEN <<>>
                 ELSE res[rows[i].detail_url].websites[1]) # <<>>
       THEN LET website == Strip(res[rows[i].detail_url].websites[1])
            IN  [rows[i] EXCEPT
                   !.website_url_primary = website,
                   !.website_domain_primary = extract_domain(website),
                   !.keys = @ \cup {"website_url_primary", "website_domain_primary"}]
       ELSE rows[i]]

\* batch_found of the wecp script
batch_found(rows, res, batch) ==
  Cardinality({p \in 1..Len(batch) :
                 /\ rows[batch[p]].detail_url \in DOMAIN res
                 /\ Strip(IF res[rows[batch[p]].detail_url].websites = <<>> THEN <<>>
                          ELSE res[rows[batch[p]].detail_url].websites[1]) # <<>>})

\* the wecp script's "Clearing primary website fields" loop
clear_primary(rows, indices) ==
  [i \in 1..Len(rows) |->
     IF i \in Range(indices)
       THEN [rows[i] EXCEPT
               !.website_url_primary = <<>>,
               !.website_domain_primary = <<>>,
               !.keys = @ \cup {"website_url_primary", "website_domain_primary"}]
       ELSE rows[i]]

\* the mapping the detail and wecp scripts build from a dataset: keyed by the
\* url of the request, a later item replacing an earlier one of the same url
ResultsByUrl(es, requests, ds) ==
  LET Url(p) == es[requests[p]].detail_url
      hits   == {p \in 1..Len(requests) : ds[p].kind = "item" /\ Url(p) # ""}
  IN  [u \in {Url(p) : p \in hits} |->
         ds[CHOOSE p \in hits : Url(p) = u /\ \A q \in hits : Url(q) = u => q <= p]]

\* a mapping keyed by the position of the request in its chunk
ResultsByIndex_ByPosition(requests, ds) ==
  [p \in {q \in 1..Len(requests) : ds[q].kind = "item"} |-> ds[p]]

\* the mapping the missing script builds: keyed by the entryIndex of the request
ResultsByIndex(requests, ds) ==
  LET hits == {p \in 1..Len(requests) : ds[p].kind = "item"}
  IN  [i \in {requests[p] : p \in hits} |->
         ds[CHOOSE p \in hits : requests[p] = i]]

EmptyResults == [k \in {} |-> NoItem]

(***************************************************************************)
(* The state of one run.                                                   *)
(***************************************************************************)
VARIABLES
  variant,       \* which of the three scripts runs
  BATCH_SIZE,    \* the chunk size
  fieldnames,    \* reader.fieldnames as read_csv returns it (missing, wecp)
  entries,       \* the records in memory (entries / rows)
  file,          \* the store file on disk: its header and the rows written
  backup,        \* BACKUP_CSV of the detail script
  pc,            \* the position of main
  saving,        \* which save of main is in progress
  batch_num,     \* the loop variable of the batch loop, counted from 1
  work,          \* range(total_entries) / missing_indices / urls_to_scrape
  urls,          \* the positions of the records submitted in the current chunk
  status,        \* the last job status run_apify_batch has read
  results,       \* the mapping the current chunk's job yielded
  total_found,   \* total_with_website / total_found
  elapsed,       \* the number of 5 s sleeps of the polling loop, modulo ClockMod
  chunks,        \* history: the slices the batch loop has produced, in order
  submitted,     \* history: the batch numbers passed to the remote service
  pre,           \* history: the entries when the current chunk was submitted
  callRaised,    \* history: the current chunk's submission raised
  pollRaised,    \* history: a status poll of the current chunk raised
  ioFailed,      \* history: a write of the store file raised
  persists,      \* history: the number of finished per-chunk saves
  checkpoint,    \* history: the store file as the last finished per-chunk save left it
  updated,       \* the number the last merge returned (updated / batch_found)
  dataset,       \* history: the dataset items of the current chunk, one per request
  in_flight,     \* history: the batch numbers whose remote job has not ended
  loaded,        \* history: the entries as main loaded them
  writeError,    \* history: the exception the last failed write raised
  locals         \* the local variables of the function that ran last

vars ==
  <<variant, BATCH_SIZE, fieldnames, entries, file, backup, pc, saving, batch_num,
    work, urls, status, results, total_found, elapsed, chunks, submitted, pre,
    callRaised, pollRaised, ioFailed, persists, checkpoint, updated, dataset,
    in_flight, loaded, writeError, locals>>

config == <<variant, BATCH_SIZE, fieldnames>>

history == <<chunks, submitted, pre, callRaised, pollRaised, ioFailed, persists, checkpoint>>

observed == <<updated, dataset, in_flight>>

Running == pc \notin {"done", "returned", "aborted", "crashed"}

total_batches == CeilDiv(Len(work), BATCH_SIZE)

\* the rows csv.DictWriter writes for the entries under a header
Written(es, header) == [i \in 1..Len(es) |-> RowUnder(es[i], header)]

Init ==
  \E v \in Variants, h \in {BaseCols, ShortCols}, b \in 1..MaxBatch :
    \E rows \in SeqsUpTo({r \in RecordPool : FitsHeader(r, h)}, MaxRecords) :
      /\ variant = v
      /\ BATCH_SIZE = b
      /\ file = [header |-> h, rows |-> Written(rows, h)]
      /\ fieldnames = IF v = "detail" THEN <<>> ELSE h
      /\ entries = IF v = "detail" THEN read_and_sort_csv(Written(rows, h))
                   ELSE Written(rows, h)
      /\ backup = <<>>
      /\ pc = "start"
      /\ saving = "none"
      /\ batch_num = 1
      /\ work = <<>>
      /\ urls = <<>>
      /\ status = "UNKNOWN"
      /\ results = EmptyResults
      /\ total_found = 0
      /\ elapsed = 0
      /\ chunks = <<>>
      /\ submitted = <<>>
      /\ pre = <<>>
      /\ callRaised = FALSE
      /\ pollRaised = FALSE
      /\ ioFailed = FALSE
      /\ persists = 0
      /\ checkpoint = <<>>
      /\ updated = 0
      /\ dataset = <<>>
      /\ in_flight = {}
      /\ loaded = entries
      /\ writeError = ""
      /\ locals = <<>>

(***************************************************************************)
(* main, up to the batch loop.                                             *)
(***************************************************************************)
\* main from the load to the first write of the store or to the client
Start ==
  /\ pc = "start"
  /\ CASE variant = "detail" ->
            /\ work' = [i \in 1..Len(entries) |-> i]
            /\ IF entries = <<>>
                 THEN pc' = "returned" /\ UNCHANGED <<backup, saving>>
                 ELSE /\ \E h \in get_fieldnames(entries) :
                           backup' = [header |-> h, rows |-> Written(entries, h)]
                      /\ saving' = "sorted"
                      /\ pc' = "save_open"
            /\ UNCHANGED entries
       [] variant = "missing" ->
            /\ work' = get_missing_indices(entries)
            /\ pc' = IF get_missing_indices(entries) = <<>> THEN "returned" ELSE "connect"
            /\ UNCHANGED <<entries, backup, saving>>
       [] variant = "wecp" ->
            /\ work' = multi_website_indices(entries)
            /\ IF multi_website_indices(entries) = <<>>
                 THEN pc' = "returned" /\ UNCHANGED <<entries, saving>>
                 ELSE /\ entries' = clear_primary(entries, multi_website_indices(entries))
                      /\ saving' = "cleared"
                      /\ pc' = "save_open"
            /\ UNCHANGED backup
  /\ UNCHANGED <<config, loaded, writeError, locals,
                 file, batch_num, urls, status, results, total_found,
                 elapsed, history, observed>>

\* client.user().get(): the detail and missing scripts print and return when it
\* raises (or when EXPERT_APIKEY is empty); the wecp script does not catch it
Connect ==
  /\ pc = "connect"
  /\ \E ok \in BOOLEAN :
       pc' = IF ok THEN "loop"
             ELSE IF variant = "wecp" THEN "aborted" ELSE "returned"
  /\ batch_num' = 1
  /\ UNCHANGED <<config, loaded, writeError, locals,
                 entries, file, backup, saving, work, urls, status, results,
                 total_found, elapsed, history, observed>>

(***************************************************************************)
(* The batch loop.                                                         *)
(***************************************************************************)
\* the head of the for loop: the next slice and its requests.  The detail and
\* missing scripts skip a slice without a detail_url ("if not urls: continue")
NextBatch ==
  /\ pc = "loop"
  /\ IF batch_num > total_batches
       THEN /\ pc' = "summary"
            /\ UNCHANGED <<batch_num, urls, status, results, elapsed, chunks, pre,
                           callRaised, pollRaised, dataset>>
       ELSE LET chunk == BatchSlice(work, batch_num, BATCH_SIZE)
                reqs  == IF variant = "wecp" THEN chunk ELSE prepare_urls(entries, chunk)
            IN  /\ chunks' = Append(chunks, chunk)
                /\ IF reqs = <<>>
                     THEN /\ batch_num' = batch_num + 1
                          /\ UNCHANGED <<pc, urls, status, results, elapsed, pre,
                                         callRaised, pollRaised, dataset>>
                     ELSE /\ urls' = reqs
                          /\ pc' = "call"
                          /\ status' = "UNKNOWN"
                          /\ results' = EmptyResults
                          /\ elapsed' = 0
                          /\ pre' = entries
                          /\ callRaised' = FALSE
                          /\ pollRaised' = FALSE
                          /\ dataset' = <<>>
                          /\ UNCHANGED batch_num
  /\ UNCHANGED <<config, loaded, writeError, locals,
                 entries, file, backup, saving, work, total_found,
                 submitted, ioFailed, persists, checkpoint, updated, in_flight>>

\* a loop that takes the failed batch again
AfterCallRaised_Requeue(k) == k

\* the wecp script's "except ...: continue": the batch number the for loop
\* takes after batch k raised
AfterCallRaised(k) == k + 1

\* client.actor(actor_id).call(...): the submission of the chunk
ActorCall ==
  /\ pc = "call"
  /\ submitted' = Append(submitted, batch_num)
  /\ \/ /\ callRaised' = TRUE            \* the call raises
        /\ IF variant = "wecp"
             THEN /\ batch_num' = AfterCallRaised(batch_num)
                  /\ pc' = "loop"
             ELSE /\ pc' = "merge"       \* run_apify_batch returns {}
                  /\ UNCHANGED batch_num
        /\ UNCHANGED <<status, in_flight>>
     \/ /\ variant # "wecp"              \* the call returns the run
        /\ pc' = "poll"
        /\ in_flight' = in_flight \cup {batch_num}
        /\ UNCHANGED <<status, callRaised, batch_num>>
     \/ /\ variant = "wecp"              \* the call returns the finished run
        /\ \E s \in Terminal : status' = s
        /\ pc' = "collect"
        /\ UNCHANGED <<callRaised, batch_num, in_flight>>
  /\ UNCHANGED <<config, loaded, writeError, locals,
                 entries, file, backup, saving, work, urls, results,
                 total_found, elapsed, chunks, pre, pollRaised, ioFailed, persists,
                 checkpoint, updated, dataset>>

\* a polling loop that stops at the first status it reads
LeavesLoop_OnAnyStatus(s) == TRUE

\* whether the polling loop breaks on the status it has read
LeavesLoop(s) == s \in Terminal

\* one round of the polling loop of run_apify_batch
Poll ==
  /\ pc = "poll"
  /\ \/ /\ pollRaised' = TRUE            \* client.run(run_id).get() raises
        /\ elapsed' = (elapsed + 1) % ClockMod
        /\ UNCHANGED <<status, pc, in_flight>>
     \/ \E s \in Terminal \cup {"RUNNING"} :
          \* the status is read, then slicing a null statusMessage raises
          /\ status' = s
          /\ in_flight' = IF s \in Terminal THEN in_flight \ {batch_num} ELSE in_flight
          /\ elapsed' = (elapsed + 1) % ClockMod
          /\ UNCHANGED <<pollRaised, pc>>
     \/ \E s \in Terminal \cup {"RUNNING"} :
          /\ status' = s
          /\ in_flight' = IF s \in Terminal THEN in_flight \ {batch_num} ELSE in_flight
          /\ IF LeavesLoop(s)
               THEN pc' = "collect" /\ UNCHANGED elapsed
               ELSE elapsed' = (elapsed + 1) % ClockMod /\ UNCHANGED pc
          /\ UNCHANGED pollRaised
  /\ UNCHANGED <<config, loaded, writeError, locals,
                 entries, file, backup, saving, batch_num, work, urls,
                 results, total_found, chunks, submitted, pre, callRaised, ioFailed,
                 persists, checkpoint, updated, dataset>>

\* whether run_apify_batch reads the dataset of a job that ended with status s
FetchesDataset(v, s) == v = "wecp" \/ s = "SUCCEEDED"

\* "Collect results": the dataset of the job becomes the chunk's mapping
Collect ==
  /\ pc = "collect"
  /\ IF ~FetchesDataset(variant, status)
       THEN /\ results' = EmptyResults
            /\ pc' = "merge"
            /\ UNCHANGED <<batch_num, dataset>>
       ELSE \/ /\ results' = EmptyResults   \* no dataset id, or the fetch raises
               /\ UNCHANGED dataset
               /\ IF variant = "wecp"
                    THEN pc' = "loop" /\ batch_num' = batch_num + 1
                    ELSE pc' = "merge" /\ UNCHANGED batch_num
            \/ \E ds \in [1..Len(urls) -> Outcomes] :
                 /\ dataset' = ds
                 /\ IF variant = "wecp" /\ \E p \in 1..Len(urls) : ds[p].kind = "error"
                      THEN /\ results' = EmptyResults   \* r['url'] raises KeyError
                           /\ pc' = "loop"
                           /\ batch_num' = batch_num + 1
                      ELSE /\ results' = IF variant = "missing"
                                           THEN ResultsByIndex(urls, ds)
                                           ELSE ResultsByUrl(entries, urls, ds)
                           /\ pc' = "merge"
                           /\ UNCHANGED batch_num
  /\ UNCHANGED <<config, loaded, writeError, locals,
                 entries, file, backup, saving, work, urls, status,
                 total_found, elapsed, history, updated, in_flight>>

\* the merge of the chunk's mapping into the entries
Merge ==
  /\ pc = "merge"
  /\ CASE variant = "detail" ->
            /\ entries' = update_entries_with_results(
                            entries, results, StartIdx(batch_num, BATCH_SIZE),
                            StartIdx(batch_num, BATCH_SIZE) + BATCH_SIZE)
            /\ updated' = updated_with_results(
                            entries, results, StartIdx(batch_num, BATCH_SIZE),
                            StartIdx(batch_num, BATCH_SIZE) + BATCH_SIZE)
       [] variant = "missing" ->
            /\ entries' = update_entries(entries, results)
            /\ updated' = updated_entries(entries, results)
       [] variant = "wecp" ->
            /\ entries' = update_rows(entries, results,
                                      BatchSlice(work, batch_num, BATCH_SIZE))
            /\ updated' = batch_found(
                            entries, results, BatchSlice(work, batch_num, BATCH_SIZE))
  /\ total_found' = total_found + updated'
  /\ saving' = "batch"
  /\ pc' = "save_open"
  /\ UNCHANGED <<config, loaded, writeError, locals,
                 file, backup, batch_num, work, urls, status, results,
                 elapsed, history, dataset, in_flight>>

(***************************************************************************)
(* save_csv: the store file is opened for writing, which empties it, and   *)
(* the rows are written in order.  A failure of the write is modelled at   *)
(* the open (OSError) and, for the DictWriter of the missing and wecp      *)
(* scripts, at a row that has a key outside fieldnames (ValueError).       *)
(***************************************************************************)
\* where main goes when a write of the store raises: only the wecp script's
\* per-batch save is inside a try, whose except goes on to the next chunk
AfterWriteError(v, sv) == IF v = "wecp" /\ sv = "batch" THEN "loop" ELSE "aborted"

\* the headers save_csv can write
HeadersToWrite == IF variant = "detail" THEN get_fieldnames(entries) ELSE {fieldnames}

\* open(CSV_FILE, "w") and writer.writeheader()
SaveOpen ==
  /\ pc = "save_open"
  /\ \/ /\ \E h \in HeadersToWrite : file' = [header |-> h, rows |-> <<>>]
        /\ pc' = "save_rows"
        /\ UNCHANGED <<ioFailed, writeError, batch_num, saving>>
     \/ /\ ioFailed' = TRUE
        /\ writeError' = "OSError"
        /\ pc' = AfterWriteError(variant, saving)
        /\ batch_num' = IF AfterWriteError(variant, saving) = "loop"
                          THEN batch_num + 1 ELSE batch_num
        /\ saving' = "none"
        /\ UNCHANGED file
  /\ UNCHANGED <<config, loaded, locals,
                 entries, backup, work, urls, status, results, total_found,
                 elapsed, chunks, submitted, pre, callRaised, pollRaised, persists,
                 checkpoint, observed>>

\* writer.writerows(entries), one row
SaveRow ==
  /\ pc = "save_rows"
  /\ Len(file.rows) < Len(entries)
  /\ LET r == entries[Len(file.rows) + 1]
     IN  IF variant # "detail" /\ ~(r.keys \subseteq Range(file.header))
           THEN /\ ioFailed' = TRUE
                /\ writeError' = "ValueError"
                /\ pc' = AfterWriteError(variant, saving)
                /\ batch_num' = IF AfterWriteError(variant, saving) = "loop"
                                  THEN batch_num + 1 ELSE batch_num
                /\ saving' = "none"
                /\ UNCHANGED file
           ELSE /\ file' = [file EXCEPT !.rows = Append(@, RowUnder(r, file.header))]
                /\ UNCHANGED <<ioFailed, writeError, pc, batch_num, saving>>
  /\ UNCHANGED <<config, loaded, locals,
                 entries, backup, work, urls, status, results, total_found,
                 elapsed, chunks, submitted, pre, callRaised, pollRaised, persists,
                 checkpoint, observed>>

\* the end of the with block: the file is closed and main goes on
SaveClose ==
  /\ pc = "save_rows"
  /\ Len(file.rows) = Len(entries)
  /\ IF saving = "batch"
       THEN /\ batch_num' = batch_num + 1
            /\ persists' = persists + 1
            /\ checkpoint' = file
            /\ pc' = "loop"
       ELSE /\ pc' = "connect"
            /\ UNCHANGED <<batch_num, persists, checkpoint>>
  /\ saving' = "none"
  /\ UNCHANGED <<config, loaded, writeError, locals,
                 entries, file, backup, work, urls, status, results,
                 total_found, elapsed, chunks, submitted, pre, callRaised, pollRaised,
                 ioFailed, observed>>

\* f"{100*x/total:.1f}": the percentage in tenths of a percent, rounded to the
\* nearest tenth, an exactly representable half (x.25, x.75) to the even digit
PercentTenths_Truncated(x, total) == (1000 * x) \div total
PercentTenths(x, total) ==
  LET n == 1000 * x
      q == n \div total
      r == n % total
  IN  IF 2 * r < total THEN q
      ELSE IF 2 * r > total THEN q + 1
      ELSE IF q % 2 = 0 THEN q ELSE q + 1

\* sum(1 for e in entries if e.get(f))
CountWith(es, f) == Cardinality({i \in 1..Len(es) : Has(es[i], f)})

\* the fields of the coverage table of the detail script's report
DetailReportFields == {"website_url_primary", "phone", "address"}

\* generate_summary(entries) of the detail script: the numbers of its report
generate_summary(es) ==
  LET total == Len(es)
  IN  [total         |-> total,
       present       |-> [f \in DetailReportFields |-> CountWith(es, f)],
       missing       |-> [f \in DetailReportFields |-> total - CountWith(es, f)],
       coverage      |-> [f \in DetailReportFields |->
                            PercentTenths(CountWith(es, f), total)],
       with_multiple |-> CountWith(es, "website_count")]

\* still_missing of the two re-scrape scripts: the missing script counts the
\* records without a primary website in the whole store, the wecp script those
\* of its work list
still_missing_WholeStore(v, es, w) == Len(es)
still_missing(v, es, w) ==
  IF v = "missing"
    THEN Len(get_missing_indices(es))
    ELSE Cardinality({k \in 1..Len(w) : Strip(es[w[k]].website_url_primary) = <<>>})

\* the summary at the end of main; the division by the number of records
\* (detail) or of work items (missing, wecp) raises ZeroDivisionError at zero
Summary ==
  /\ pc = "summary"
  /\ IF variant = "detail"
       THEN IF Len(entries) = 0
              THEN pc' = "aborted" /\ UNCHANGED locals
              ELSE pc' = "done" /\ locals' = generate_summary(entries)
       ELSE IF Len(work) = 0
              THEN pc' = "aborted" /\ UNCHANGED locals
              ELSE /\ pc' = "done"
                   /\ locals' = [initially_missing |-> Len(work),
                                 newly_found       |-> total_found,
                                 still_missing     |-> still_missing(variant, entries, work),
                                 rate              |-> PercentTenths(total_found, Len(work))]
  /\ UNCHANGED <<config, loaded, writeError,
                 entries, file, backup, saving, batch_num, work, urls,
                 status, results, total_found, elapsed, history, observed>>

\* the process is terminated: nothing of main runs any more
Crash ==
  /\ Running
  /\ pc' = "crashed"
  /\ UNCHANGED <<config, loaded, writeError, locals,
                 entries, file, backup, saving, batch_num, work, urls,
                 status, results, total_found, elapsed, history, observed>>

Next ==
  \/ Start
  \/ Connect
  \/ NextBatch
  \/ ActorCall
  \/ Poll
  \/ Collect
  \/ Merge
  \/ SaveOpen
  \/ SaveRow
  \/ SaveClose
  \/ Summary
  \/ Crash

Spec == Init /\ [][Next]_vars

\* while main is in the polling loop it runs the next round of the loop; what
\* the remote service answers is not fair
LiveSpec == Init /\ [][Next]_vars /\ WF_vars(Poll)

(***************************************************************************)
(* The batch loop on its own: the slices it takes of a list of work items. *)
(***************************************************************************)
\* the longest list of work items the planner is run on
MaxPlanItems == 5
\* the planner is run with the chunk sizes 1..MaxPlanBatch
MaxPlanBatch == 3

PlanInit ==
  \E S \in SUBSET (1..MaxPlanItems), b \in 1..MaxPlanBatch :
    /\ variant = "missing"
    /\ BATCH_SIZE = b
    /\ work = Ascending(S, MaxPlanItems)
    /\ pc = "plan"
    /\ batch_num = 1
    /\ chunks = <<>>
    /\ fieldnames = BaseCols
    /\ entries = <<>>
    /\ file = [header |-> BaseCols, rows |-> <<>>]
    /\ backup = <<>>
    /\ saving = "none"
    /\ urls = <<>>
    /\ status = "UNKNOWN"
    /\ results = EmptyResults
    /\ total_found = 0
    /\ elapsed = 0
    /\ submitted = <<>>
    /\ pre = <<>>
    /\ callRaised = FALSE
    /\ pollRaised = FALSE
    /\ ioFailed = FALSE
    /\ persists = 0
    /\ checkpoint = <<>>
    /\ updated = 0
    /\ dataset = <<>>
    /\ in_flight = {}
    /\ loaded = entries
    /\ writeError = ""
    /\ locals = <<>>

\* one iteration of "for batch_num in range(1, total_batches + 1)"
PlanBatch ==
  /\ pc = "plan"
  /\ batch_num <= total_batches
  /\ chunks' = Append(chunks, BatchSlice(work, batch_num, BATCH_SIZE))
  /\ batch_num' = batch_num + 1
  /\ UNCHANGED <<config, loaded, writeError, locals,
                 entries, file, backup, pc, saving, work, urls, status,
                 results, total_found, elapsed, submitted, pre, callRaised,
                 pollRaised, ioFailed, persists, checkpoint, observed>>

\* the range is exhausted
PlanEnd ==
  /\ pc = "plan"
  /\ batch_num > total_batches
  /\ pc' = "planned"
  /\ UNCHANGED <<config, loaded, writeError, locals,
                 entries, file, backup, saving, batch_num, work, urls,
                 status, results, total_found, elapsed, history, observed>>

PlanNext == PlanBatch \/ PlanEnd

PlannerSpec == PlanInit /\ [][PlanNext]_vars

(***************************************************************************)
(* The Result Merger on its own: one result merged into a one-record store *)
(* and then merged into it again.                                          *)
(***************************************************************************)
\* the merge of the script v: the entries after res is merged into the slice
\* of the first b work items
MergedBy(v, es, res, items, b) ==
  CASE v = "detail" -> update_entries_with_results(es, res, StartIdx(1, b), StartIdx(1, b) + b)
    [] v = "missing" -> update_entries(es, res)
    [] v = "wecp" -> update_rows(es, res, BatchSlice(items, 1, b))

MergeInit ==
  \E v \in Variants, h \in {BaseCols, ShortCols}, it \in Outcomes :
    \E r \in {x \in RecordPool : FitsHeader(x, h)} :
      /\ variant = v
      /\ BATCH_SIZE = 1
      /\ fieldnames = h
      /\ entries = Written(<<r>>, h)
      /\ file = [header |-> h, rows |-> Written(<<r>>, h)]
      /\ work = <<1>>
      /\ urls = <<1>>
      /\ dataset = <<it>>
      /\ results = IF v = "missing" THEN ResultsByIndex(<<1>>, <<it>>)
                   ELSE ResultsByUrl(Written(<<r>>, h), <<1>>, <<it>>)
      /\ pc = "merge_first"
      /\ pre = <<>>
      /\ status = "SUCCEEDED"
      /\ backup = <<>>
      /\ saving = "none"
      /\ batch_num = 1
      /\ total_found = 0
      /\ elapsed = 0
      /\ chunks = <<>>
      /\ submitted = <<>>
      /\ callRaised = FALSE
      /\ pollRaised = FALSE
      /\ ioFailed = FALSE
      /\ persists = 0
      /\ checkpoint = <<>>
      /\ updated = 0
      /\ in_flight = {}
      /\ loaded = entries
      /\ writeError = ""
      /\ locals = <<>>

\* the merge is applied to the entries; pre keeps what they were before it
MergeAgain ==
  /\ pc \in {"merge_first", "merge_second"}
  /\ entries' = MergedBy(variant, entries, results, work, BATCH_SIZE)
  /\ pre' = entries
  /\ pc' = IF pc = "merge_first" THEN "merge_second" ELSE "merged_twice"
  /\ UNCHANGED <<config, loaded, writeError, locals,
                 file, backup, saving, batch_num, work, urls, status, results,
                 total_found, elapsed, chunks, submitted, callRaised, pollRaised,
                 ioFailed, persists, checkpoint, observed>>

MergeNext == MergeAgain

MergerSpec == MergeInit /\ [][MergeNext]_vars

(***************************************************************************)
(* save_csv of the detail script on its own: runs that load a store file   *)
(* with columns outside base_cols and write it again.                      *)
(***************************************************************************)
\* the store is rewritten by MaxRewrites runs
MaxRewrites == 2

\* the columns outside base_cols a store file can have
ExtraPool == {"notes", "rating", "tier"}

\* the row r of a file that has the columns xs after the columns of r
WithExtras(r, xs) ==
  [f \in DOMAIN r \cup Range(xs) |->
     IF f \in Range(xs) THEN "x"
     ELSE IF f = "keys" THEN r.keys \cup Range(xs)
     ELSE r[f]]

RewriteInit ==
  \E S \in SUBSET ExtraPool, h \in {BaseCols, ShortCols} :
    \E xs \in Orders(S), r \in {x \in RecordPool : FitsHeader(x, h)} :
      /\ variant = "detail"
      /\ BATCH_SIZE = 1
      /\ fieldnames = <<>>
      /\ file = [header |-> h \o xs, rows |-> <<WithExtras(RowUnder(r, h), xs)>>]
      /\ entries = read_and_sort_csv(<<WithExtras(RowUnder(r, h), xs)>>)
      /\ pc = "rewrite"
      /\ persists = 0
      /\ checkpoint = <<>>
      /\ backup = <<>>
      /\ saving = "none"
      /\ batch_num = 1
      /\ work = <<>>
      /\ urls = <<>>
      /\ status = "UNKNOWN"
      /\ results = EmptyResults
      /\ total_found = 0
      /\ elapsed = 0
      /\ chunks = <<>>
      /\ submitted = <<>>
      /\ pre = <<>>
      /\ callRaised = FALSE
      /\ pollRaised = FALSE
      /\ ioFailed = FALSE
      /\ updated = 0
      /\ dataset = <<>>
      /\ in_flight = {}
      /\ loaded = entries
      /\ writeError = ""
      /\ locals = <<>>

\* one run's save_csv(entries, CSV_FILE), and the entries the next run reads
\* from the file; checkpoint keeps the file as it was before the save
Rewrite ==
  /\ pc = "rewrite"
  /\ persists < MaxRewrites
  /\ \E h \in get_fieldnames(entries) :
       /\ file' = [header |-> h, rows |-> Written(entries, h)]
       /\ entries' = read_and_sort_csv(Written(entries, h))
  /\ checkpoint' = file
  /\ persists' = persists + 1
  /\ UNCHANGED <<config, loaded, writeError, locals,
                 backup, pc, saving, batch_num, work, urls, status, results,
                 total_found, elapsed, chunks, submitted, pre, callRaised, pollRaised,
                 ioFailed, observed>>

RewriteNext == Rewrite

RewriteSpec == RewriteInit /\ [][RewriteNext]_vars

(***************************************************************************)
(* The Domain Normalizer on its own: a URL is normalized, and the domain,  *)
(* written as a URL, is normalized again.                                  *)
(***************************************************************************)
UrlSchemes == {<<>>, HttpPrefix, HttpsPrefix, <<"H","T","T","P",":","/","/">>, <<"H","t","t","p","s",":","/","/">>}

UrlWwwLabels == {<<>>, WwwPrefix, <<"W","W","W",".">>, <<"w","w","w",".","w","w","w",".">>}

UrlHosts == {<<"E","x","a","m","p","l","e",".","c","o","m">>, <<"b","a","r",".","o","r","g">>}

UrlPorts == {<<>>, <<":","8","0","8","0">>}

UrlPaths == {<<>>, <<"/","x">>}

\* the URLs the normalizer is run on
UrlPool ==
  {s \o w \o h \o p \o x :
     s \in UrlSchemes, w \in UrlWwwLabels, h \in UrlHosts, p \in UrlPorts, x \in UrlPaths}
    \cup {<<>>, <<" ", " ">>}

\* the normalizer the script v derives website_domain_primary with
DomainOf(v, url) == IF v = "wecp" THEN extract_domain(url) ELSE normalize_domain(url)

\* a record with the website url and no domain yet
UrlRow(url) ==
  [Row("c1", "u1", "1", url, "", "", <<>>) EXCEPT !.website_domain_primary = <<>>]

NormalizeInit ==
  \E v \in Variants, u \in UrlPool :
    /\ variant = v
    /\ BATCH_SIZE = 1
    /\ fieldnames = BaseCols
    /\ entries = <<UrlRow(u)>>
    /\ file = [header |-> BaseCols, rows |-> <<>>]
    /\ pc = "normalize"
    /\ backup = <<>>
    /\ saving = "none"
    /\ batch_num = 1
    /\ work = <<>>
    /\ urls = <<>>
    /\ status = "UNKNOWN"
    /\ results = EmptyResults
    /\ total_found = 0
    /\ elapsed = 0
    /\ chunks = <<>>
    /\ submitted = <<>>
    /\ pre = <<>>
    /\ callRaised = FALSE
    /\ pollRaised = FALSE
    /\ ioFailed = FALSE
    /\ persists = 0
    /\ checkpoint = <<>>
    /\ updated = 0
    /\ dataset = <<>>
    /\ in_flight = {}
    /\ loaded = entries
    /\ writeError = ""
    /\ locals = <<>>

\* entry["website_domain_primary"] = normalize_domain(entry["website_url_primary"])
Normalize ==
  /\ pc = "normalize"
  /\ entries' = [entries EXCEPT ![1].website_domain_primary =
                   DomainOf(variant, entries[1].website_url_primary)]
  /\ pc' = "round_trip"
  /\ UNCHANGED <<config, loaded, writeError, locals,
                 file, backup, saving, batch_num, work, urls, status, results,
                 total_found, elapsed, history, observed>>

\* the domain of the first record is the https website of a second record,
\* whose domain is derived in the same way
RoundTrip ==
  /\ pc = "round_trip"
  /\ LET u == HttpsPrefix \o entries[1].website_domain_primary
     IN  entries' = Append(entries,
                      [UrlRow(u) EXCEPT !.website_domain_primary = DomainOf(variant, u)])
  /\ pc' = "normalized"
  /\ UNCHANGED <<config, loaded, writeError, locals,
                 file, backup, saving, batch_num, work, urls, status, results,
                 total_found, elapsed, history, observed>>

NormalizeNext == Normalize \/ RoundTrip

NormalizerSpec == NormalizeInit /\ [][NormalizeNext]_vars

(***************************************************************************)
(* The reports: the listing scraper (enf_scraper_apify.py, enf_scraper.py) *)
(* collects installers, drops duplicates, saves them and summarises them;  *)
(* the detail script summarises its store.                                 *)
(***************************************************************************)
\* the number of entries a run draws beyond the one-per-area prefix
MaxTail == 2

\* the number of areas of the one-per-area prefix of a drawn installer list
MaxAreas == 17

\* [:15]: the length of the area ranking
TopN == 15

ScraperVariants == {"scraper_apify", "scraper"}

ListingCols == <<"company_name", "area", "battery_storage", "detail_url", "source_page">>

AreaNames ==
  <<"Alabama", "Alaska", "Arizona", "Arkansas", "California", "Colorado",
    "Connecticut", "Delaware", "Florida", "Georgia", "Hawaii", "Idaho",
    "Illinois", "Indiana", "Iowa", "Kansas", "Kentucky", "Louisiana",
    "Maine", "Maryland">>

DETAIL_BASE == "https://www.enfsolar.com"

\* an entry as the row parser builds it: battery_storage is "Yes" or ""
Installer(name, area, battery, url, page) ==
  [company_name |-> name, area |-> area, battery_storage |-> battery,
   detail_url |-> url, source_page |-> page]

\* one installer of each of the first k areas, each with its own detail page
OnePerArea(k) ==
  [i \in 1..k |-> Installer("solar", AreaNames[i], "", DETAIL_BASE \o "/" \o AreaNames[i], 1)]

InstallerPool ==
  { Installer("sun", AreaNames[1], "Yes", DETAIL_BASE \o "/" \o AreaNames[1], 2),
    Installer("ray", AreaNames[MaxAreas - 1], "", DETAIL_BASE \o "/ray", 2),
    Installer("ray", AreaNames[MaxAreas], "Yes", DETAIL_BASE \o "/ray", 2),
    Installer("volt", AreaNames[MaxAreas], "", "", 2),
    Installer("amp", "", "Yes", "", 2),
    Installer("ohm", "", "", DETAIL_BASE \o "/ohm", 2) }

\* the entries of l at the positions S, in the order of l
Keep(l, S) ==
  LET idx == Ascending(S \cap (1..Len(l)), Len(l))
  IN  [k \in 1..Len(idx) |-> l[idx[k]]]

\* save_to_csv of enf_scraper_apify.py: an entry with a detail_url is kept when
\* the url was not seen before, an entry without one is always kept
UniquePositions(installers) ==
  {i \in 1..Len(installers) :
     \/ installers[i].detail_url = ""
     \/ \A j \in 1..(i - 1) : installers[j].detail_url # installers[i].detail_url}

\* scrape_all_pages of enf_scraper.py: an entry is appended when it has a
\* detail_url that was not seen before
NewPositions(installers) ==
  {i \in 1..Len(installers) :
     /\ installers[i].detail_url # ""
     /\ \A j \in 1..(i - 1) : installers[j].detail_url # installers[i].detail_url}

KeptPositions(v, installers) ==
  IF v = "scraper_apify" THEN UniquePositions(installers) ELSE NewPositions(installers)

\* area = i.get("area", "Unknown") or "Unknown"
AreaOf(inst) == IF inst.area = "" THEN "Unknown" ELSE inst.area

\* the areas dict: one <<area, count>> per area, in the order of first insertion
areas(installers) ==
  LET first == {i \in 1..Len(installers) :
                  \A j \in 1..(i - 1) : AreaOf(installers[j]) # AreaOf(installers[i])}
      keys  == Keep(installers, first)
  IN  [k \in 1..Len(keys) |->
         <<AreaOf(keys[k]),
           Cardinality({i \in 1..Len(installers) : AreaOf(installers[i]) = AreaOf(keys[k])})>>]

\* one step of sorted(items, key=lambda x: x[1], reverse=True): the sort is
\* stable, so an item goes behind every item whose count is not smaller
InsertByCount_BeforeTies(sorted, x) ==
  LET k == Cardinality({j \in 1..Len(sorted) : sorted[j][2] > x[2]})
  IN  SubSeq(sorted, 1, k) \o <<x>> \o SubSeq(sorted, k + 1, Len(sorted))
InsertByCount(sorted, x) ==
  LET k == Cardinality({j \in 1..Len(sorted) : sorted[j][2] >= x[2]})
  IN  SubSeq(sorted, 1, k) \o <<x>> \o SubSeq(sorted, k + 1, Len(sorted))

RECURSIVE SortedByCount(_)
SortedByCount(items) ==
  IF items = <<>> THEN <<>>
  ELSE InsertByCount(SortedByCount(SubSeq(items, 1, Len(items) - 1)), items[Len(items)])

\* sorted(areas.items(), key=lambda x: x[1], reverse=True)[:15]
sorted_areas(installers) ==
  LET s == SortedByCount(areas(installers))
  IN  SubSeq(s, 1, Min(TopN, Len(s)))

\* the fields of the coverage table of the listing scraper's report
ListingReportFields == {"company_name", "area", "battery_storage", "detail_url"}

\* with_area, with_battery, with_detail_url; the company_name row is written
\* as total | 0 | 100.0%
ListingPresent(installers, f) ==
  CASE f = "company_name" -> Len(installers)
    [] f = "battery_storage" ->
         Cardinality({i \in 1..Len(installers) : installers[i].battery_storage = "Yes"})
    [] OTHER -> Cardinality({i \in 1..Len(installers) : installers[i][f] # ""})

\* generate_summary(installers, output_path) of the listing scraper: the
\* numbers of its report
listing_generate_summary(installers) ==
  LET total == Len(installers)
  IN  [total        |-> total,
       present      |-> [f \in ListingReportFields |-> ListingPresent(installers, f)],
       missing      |-> [f \in ListingReportFields |->
                           IF f = "company_name" THEN 0
                           ELSE total - ListingPresent(installers, f)],
       coverage     |-> [f \in ListingReportFields |->
                           IF f = "company_name" THEN 1000
                           ELSE PercentTenths(ListingPresent(installers, f), total)],
       pages        |-> Cardinality({installers[i].source_page : i \in 1..Len(installers)}),
       sorted_areas |-> sorted_areas(installers)]

\* the state when the installers are collected (listing scraper) or the batch
\* loop has ended (detail script)
ReportInit ==
  /\ \/ /\ variant \in ScraperVariants
        /\ \E k \in 0..MaxAreas, tail \in SeqsUpTo(InstallerPool, MaxTail) :
             entries = OnePerArea(k) \o tail
        /\ fieldnames = ListingCols
        /\ file = [header |-> ListingCols, rows |-> <<>>]
        /\ pc = "scraped"
        /\ work = <<>>
     \/ /\ variant = "detail"
        /\ entries \in SeqsUpTo(RecordPool, MaxRecords) \ {<<>>}
        /\ fieldnames = BaseCols
        /\ file = [header |-> BaseCols, rows |-> entries]
        /\ pc = "summary"
        /\ work = [i \in 1..Len(entries) |-> i]
  /\ BATCH_SIZE = 1
  /\ backup = <<>>
  /\ saving = "none"
  /\ batch_num = 1
  /\ urls = <<>>
  /\ status = "UNKNOWN"
  /\ results = EmptyResults
  /\ total_found = 0
  /\ elapsed = 0
  /\ chunks = <<>>
  /\ submitted = <<>>
  /\ pre = <<>>
  /\ callRaised = FALSE
  /\ pollRaised = FALSE
  /\ ioFailed = FALSE
  /\ persists = 0
  /\ checkpoint = <<>>
  /\ updated = 0
  /\ dataset = <<>>
  /\ in_flight = {}
  /\ loaded = entries
  /\ writeError = ""
  /\ locals = <<>>

\* the duplicates are dropped and the list is saved: enf_scraper_apify.py
\* returns from main on an empty list and drops the duplicates in save_to_csv;
\* enf_scraper.py drops them while it scrapes and returns from main when
\* nothing is left
Deduplicate ==
  /\ pc = "scraped"
  /\ variant \in ScraperVariants
  /\ LET kept   == KeptPositions(variant, entries)
         unique == Keep(entries, kept)
     IN  /\ IF (variant = "scraper_apify" /\ entries = <<>>)
                  \/ (variant = "scraper" /\ unique = <<>>)
               THEN /\ pc' = "returned"
                    /\ entries' = IF variant = "scraper" THEN unique ELSE entries
                    /\ UNCHANGED file
               ELSE /\ pc' = "report"
                    /\ entries' = unique
                    /\ file' = [header |-> ListingCols, rows |-> unique]
         /\ locals' = [seen |-> {entries[i].detail_url : i \in kept} \ {""},
                       kept |-> kept]
  /\ UNCHANGED <<config, loaded, writeError,
                 backup, saving, batch_num, work, urls, status, results,
                 total_found, elapsed, history, observed>>

\* generate_summary of the listing scraper; an empty list gives
\* "No data collected."
ListingSummary ==
  /\ pc = "report"
  /\ variant \in ScraperVariants
  /\ IF Len(entries) = 0
       THEN locals' = [total |-> 0]
       ELSE locals' = listing_generate_summary(entries)
  /\ pc' = "reported"
  /\ UNCHANGED <<config, loaded, writeError,
                 entries, file, backup, saving, batch_num, work, urls, status,
                 results, total_found, elapsed, history, observed>>

ReportNext == Deduplicate \/ ListingSummary \/ Summary

ReportSpec == ReportInit /\ [][ReportNext]_vars

(***************************************************************************)
(* get_soup of 2_scrap.py: a page is requested up to max_retries times.    *)
(***************************************************************************)
\* the largest max_retries a call is made with (the default is 3)
MaxRetries == 3

\* what one requests.get does: it raises, or it gives a response
Responses ==
  {[raised |-> TRUE, status_code |-> 0]}
    \cup {[raised |-> FALSE, status_code |-> c] : c \in {200, 404, 503}}

\* for attempt in range(max_retries): another attempt is made
MoreAttempts_Inclusive(l) == l.attempt <= l.max_retries
MoreAttempts(l) == l.attempt < l.max_retries

\* get_soup(url, max_retries) is called
SoupInit ==
  /\ variant = "get_soup"
  /\ \E n \in 0..MaxRetries :
       locals = [max_retries |-> n, attempt |-> 0, responses |-> <<>>,
                 slept |-> 0, returned |-> "nothing"]
  /\ pc = "soup_loop"
  /\ BATCH_SIZE = 1
  /\ fieldnames = BaseCols
  /\ entries = <<>>
  /\ file = [header |-> BaseCols, rows |-> <<>>]
  /\ backup = <<>>
  /\ saving = "none"
  /\ batch_num = 1
  /\ work = <<>>
  /\ urls = <<>>
  /\ status = "UNKNOWN"
  /\ results = EmptyResults
  /\ total_found = 0
  /\ elapsed = 0
  /\ chunks = <<>>
  /\ submitted = <<>>
  /\ pre = <<>>
  /\ callRaised = FALSE
  /\ pollRaised = FALSE
  /\ ioFailed = FALSE
  /\ persists = 0
  /\ checkpoint = <<>>
  /\ updated = 0
  /\ dataset = <<>>
  /\ in_flight = {}
  /\ loaded = entries
  /\ writeError = ""

\* one pass of the loop: requests.get, then time.sleep(9) in the try block or
\* in the except block; a response with status 200 is parsed and returned
Request ==
  /\ pc = "soup_loop"
  /\ MoreAttempts(locals)
  /\ \E r \in Responses :
       LET l == [locals EXCEPT !.responses = Append(@, r), !.slept = @ + 9]
       IN  IF ~r.raised /\ r.status_code = 200
             THEN /\ locals' = [l EXCEPT !.returned = "soup"]
                  /\ pc' = "soup_returned"
             ELSE /\ locals' = [l EXCEPT !.attempt = @ + 1]
                  /\ pc' = "soup_loop"
  /\ UNCHANGED <<config, loaded, writeError,
                 entries, file, backup, saving, batch_num, work, urls, status,
                 results, total_found, elapsed, history, observed>>

\* the loop is exhausted: return None
ReturnNone ==
  /\ pc = "soup_loop"
  /\ ~MoreAttempts(locals)
  /\ locals' = [locals EXCEPT !.returned = "None"]
  /\ pc' = "soup_returned"
  /\ UNCHANGED <<config, loaded, writeError,
                 entries, file, backup, saving, batch_num, work, urls, status,
                 results, total_found, elapsed, history, observed>>

SoupNext == Request \/ ReturnNone

\* requests.get is called with timeout=30 and the sleeps are finite, so a pass
\* of the loop that can be made is made
SoupSpec == SoupInit /\ [][SoupNext]_vars /\ WF_vars(Request) /\ WF_vars(ReturnNone)

(***************************************************************************)
(* The negative-value correction of the covid data: fix_negative_values.py *)
(* writes a fixed copy with two flag columns, update_final_inplace.py      *)
(* fixes the file in place and drops the flag columns before it writes.    *)
(***************************************************************************)
\* the number of rows of a drawn data frame
MaxRows == 2

CovidScripts == {"fix_negative_values", "update_final_inplace"}

CovidCols == <<"New_Cases", "New_Deaths">>

FlagCols == <<"New_Cases_fixed", "New_Deaths_fixed">>

\* the daily counts a row can hold: a negative correction, zero, a count
DailyCounts == {-2, 0, 3}

CovidRows == [New_Cases : DailyCounts, New_Deaths : DailyCounts]

\* fix_negative_values.py, lines 28-35, for one row: the flags start as False,
\* a negative value becomes 0, and the flag is set where the value is then 0
fixed_row(r) ==
  LET cases  == IF r.New_Cases < 0 THEN 0 ELSE r.New_Cases
      deaths == IF r.New_Deaths < 0 THEN 0 ELSE r.New_Deaths
  IN  [New_Cases |-> cases, New_Deaths |-> deaths,
       New_Cases_fixed |-> (cases = 0), New_Deaths_fixed |-> (deaths = 0)]

\* update_final_inplace.py, lines 24-37, for one row: the masks are taken
\* before the values are changed
flagged_row(r) ==
  LET mask_cases  == r.New_Cases < 0
      mask_deaths == r.New_Deaths < 0
  IN  [New_Cases |-> IF mask_cases THEN 0 ELSE r.New_Cases,
       New_Deaths |-> IF mask_deaths THEN 0 ELSE r.New_Deaths,
       New_Cases_fixed |-> mask_cases, New_Deaths_fixed |-> mask_deaths]

\* df.drop(columns=[col]) for the two flag columns
drop_flags(r) == [New_Cases |-> r.New_Cases, New_Deaths |-> r.New_Deaths]

\* df = pd.read_csv(...); update_final_inplace.py has copied SRC to BACK before
CovidInit ==
  /\ variant \in CovidScripts
  /\ entries \in SeqsUpTo(CovidRows, MaxRows)
  /\ fieldnames = CovidCols
  /\ file = [header |-> CovidCols, rows |-> entries]
  /\ pc = "covid_loaded"
  /\ BATCH_SIZE = 1
  /\ backup = IF variant = "update_final_inplace" THEN file ELSE <<>>
  /\ saving = "none"
  /\ batch_num = 1
  /\ work = <<>>
  /\ urls = <<>>
  /\ status = "UNKNOWN"
  /\ results = EmptyResults
  /\ total_found = 0
  /\ elapsed = 0
  /\ chunks = <<>>
  /\ submitted = <<>>
  /\ pre = <<>>
  /\ callRaised = FALSE
  /\ pollRaised = FALSE
  /\ ioFailed = FALSE
  /\ persists = 0
  /\ checkpoint = <<>>
  /\ updated = 0
  /\ dataset = <<>>
  /\ in_flight = {}
  /\ loaded = entries
  /\ writeError = ""
  /\ locals = <<>>

\* fix_negative_values.py: the fixed frame is built and written to OUT
FixNegativeValues ==
  /\ pc = "covid_loaded"
  /\ variant = "fix_negative_values"
  /\ entries' = [i \in 1..Len(entries) |-> fixed_row(entries[i])]
  /\ file' = [header |-> CovidCols \o FlagCols, rows |-> entries']
  /\ pc' = "covid_written"
  /\ UNCHANGED <<config, loaded, writeError, locals,
                 backup, saving, batch_num, work, urls, status, results,
                 total_found, elapsed, history, observed>>

\* update_final_inplace.py: the flags are added and the negatives are fixed
FlagAndFix ==
  /\ pc = "covid_loaded"
  /\ variant = "update_final_inplace"
  /\ entries' = [i \in 1..Len(entries) |-> flagged_row(entries[i])]
  /\ pc' = "covid_flagged"
  /\ UNCHANGED <<config, loaded, writeError, locals,
                 file, backup, saving, batch_num, work, urls, status, results,
                 total_found, elapsed, history, observed>>

\* update_final_inplace.py: the flag columns are dropped and the frame is
\* written back to SRC
WriteBack ==
  /\ pc = "covid_flagged"
  /\ entries' = [i \in 1..Len(entries) |-> drop_flags(entries[i])]
  /\ file' = [header |-> CovidCols, rows |-> entries']
  /\ pc' = "covid_written"
  /\ UNCHANGED <<config, loaded, writeError, locals,
                 backup, saving, batch_num, work, urls, status, results,
                 total_found, elapsed, history, observed>>

CovidNext == FixNegativeValues \/ FlagAndFix \/ WriteBack

CovidSpec == CovidInit /\ [][CovidNext]_vars

(***************************************************************************)
(* The claims.                                                             *)
(***************************************************************************)
\* the current chunk's job failed: its submission raised, or it ended in a
\* terminal status other than SUCCEEDED
FailedJob == callRaised \/ status \in (Terminal \ {"SUCCEEDED"})

\* the current chunk has been merged and its save is under way
ChunkMerged == saving = "batch" /\ pc \in {"save_open", "save_rows"}

\* the chunk's mapping holds no website for record i
NoWebsiteFor(i) ==
  IF variant = "missing"
    THEN i \notin DOMAIN results \/ results[i].websites = <<>>
    ELSE ResultFor(results, pre[i].detail_url).websites = <<>>

\* the store file holds every record of the memory, with every field's value
FileCurrent ==
  /\ Len(file.rows) = Len(entries)
  /\ \A i \in 1..Len(entries) : \A f \in AllFields : file.rows[i][f] = entries[i][f]

RECURSIVE Concat(_)
Concat(ss) == IF ss = <<>> THEN <<>> ELSE Head(ss) \o Concat(Tail(ss))

NoDuplicates(s) == \A i, j \in 1..Len(s) : i # j => s[i] # s[j]

\* C1: once a chunk whose job failed has been handled, every field of every
\* record has the value it had when the chunk was submitted.
C1_FailedChunkChangesNothing ==
  (ChunkMerged /\ FailedJob) =>
    /\ Len(entries) = Len(pre)
    /\ \A i \in 1..Len(entries) : \A f \in AllFields : entries[i][f] = pre[i][f]

\* C2: after a merge, a record for which the chunk's mapping holds no website
\* has the website_url_primary and website_domain_primary it had before.
C2_NoWebsiteLeavesPrimary ==
  ChunkMerged =>
    \A i \in 1..Len(entries) :
      NoWebsiteFor(i) =>
        /\ entries[i].website_url_primary = pre[i].website_url_primary
        /\ entries[i].website_domain_primary = pre[i].website_domain_primary

\* C3: after a merge, a record whose phone (address) was non-empty before the
\* merge has the same phone (address).
C3_PhoneAddressNeverRegress ==
  ChunkMerged =>
    \A i \in 1..Len(entries) :
      /\ pre[i].phone # "" => entries[i].phone = pre[i].phone
      /\ pre[i].address # "" => entries[i].address = pre[i].address

\* C4: whenever a chunk is submitted, and at the end of the run, the store
\* file equals the records in memory.
C4_FileCurrentAtSubmit == pc \in {"call", "done"} => FileCurrent

\* C5: after a crash that follows the first finished per-chunk save and
\* precedes the end of the second, the store file is the file that first save left.
C5_CrashKeepsCheckpoint == (pc = "crashed" /\ persists = 1) => file = checkpoint

\* C6: the polling loop of run_apify_batch always ends.
C6_PollingEnds == (pc = "poll") ~> (pc # "poll")

HasResult(i) ==
  IF variant = "missing" THEN i \in DOMAIN results
  ELSE pre[i].detail_url \in DOMAIN results

\* C8: after a merge, a record that the chunk's mapping holds a result for
\* differs from what it was before the merge only if the chunk's job ended
\* SUCCEEDED.
C8_UpdatesOnlyFromSucceeded ==
  ChunkMerged =>
    \A i \in 1..Len(entries) :
      (HasResult(i) /\ \E f \in AllFields : entries[i][f] # pre[i][f])
        => status = "SUCCEEDED"

\* C9: once a write of the store file has raised, the run has stopped with
\* the error: no later chunk, no summary.
C9_WriteFailureStops == ioFailed => pc = "aborted"

\* C10: the slices produced so far are, concatenated, a prefix of the work
\* list; a slice shorter than BATCH_SIZE is non-empty and the last one; when
\* the loop ends the slices make up the whole list and their number n is
\* ceil(N/B): (n - 1) * B < N <= n * B.
C10_PlannerPartitions ==
  /\ Concat(chunks) = Take(work, Len(Concat(chunks)))
  /\ \A k \in 1..Len(chunks) :
       \/ Len(chunks[k]) = BATCH_SIZE
       \/ /\ k = Len(chunks)
          /\ Len(chunks[k]) >= 1
          /\ Len(chunks[k]) < BATCH_SIZE
          /\ Concat(chunks) = work
  /\ pc = "planned" =>
       /\ Concat(chunks) = work
       /\ Len(chunks) * BATCH_SIZE >= Len(work)
       /\ (Len(chunks) - 1) * BATCH_SIZE < Len(work) \/ (Len(chunks) = 0 /\ work = <<>>)

\* the loop has ended with several slices, the last one shorter than BATCH_SIZE
C10_Witness ==
  /\ pc = "planned"
  /\ Len(chunks) >= 2
  /\ Len(chunks[Len(chunks)]) < BATCH_SIZE
  /\ Len(chunks[1]) = BATCH_SIZE

\* the requests of the current chunk that were made for record i and that the
\* dataset holds an item for
ItemsFor(i) ==
  {p \in 1..Len(urls) : urls[p] = i /\ p \in DOMAIN dataset /\ dataset[p].kind = "item"}

\* C11: in the missing script, where only the records without a
\* website_url_primary are submitted, a merged chunk leaves every record that
\* no item of the dataset was returned for as it was, and a record an item was
\* returned for is the record as it was with that item (the item of a request
\* made for its own store index) merged into it; every submitted index was
\* missing a website when the store was loaded.
C11_IndexIdentity ==
  (variant = "missing" /\ ChunkMerged) =>
    /\ Len(entries) = Len(pre)
    /\ \A p \in 1..Len(urls) : urls[p] \in Range(work)
    /\ \A i \in 1..Len(entries) :
         IF ItemsFor(i) = {}
           THEN entries[i] = pre[i]
           ELSE \E p \in ItemsFor(i) :
                  entries[i] = MergeMissing(pre[i], dataset[p].websites,
                                            dataset[p].phone, dataset[p].address)

\* a website was merged into a record whose store index is not its position in
\* the chunk
C11_Witness ==
  /\ variant = "missing"
  /\ ChunkMerged
  /\ \E p \in 1..Len(urls) :
       /\ urls[p] # p
       /\ ItemsFor(urls[p]) = {p}
       /\ dataset[p].websites # <<>>
       /\ entries[urls[p]].website_url_primary = dataset[p].websites[1]
       /\ pre[urls[p]].website_url_primary = <<>>

\* C12: the requests of a submitted chunk are exactly the records of its slice
\* that have a detail_url: a record without one is left out, and the other
\* records of the slice are submitted.
C12_MalformedNeverSubmitted ==
  (pc = "call") =>
    Range(urls) = {i \in Range(chunks[Len(chunks)]) : entries[i].detail_url # ""}

\* C13: in the detail and missing scripts at most one remote job is in flight;
\* a chunk is merged only after its submission raised or its job was seen in a
\* terminal status; and when a chunk is submitted no job is in flight and every
\* chunk submitted before it has been merged and saved to the store file.
C13_OneChunkAtATime ==
  variant # "wecp" =>
    /\ Cardinality(in_flight) <= 1
    /\ ChunkMerged => (callRaised \/ status \in Terminal) /\ in_flight = {}
    /\ persists <= Len(submitted)
    /\ pc = "call" =>
         /\ in_flight = {}
         /\ persists = Len(submitted)
         /\ FileCurrent
         /\ \A k \in 1..Len(submitted) : submitted[k] < batch_num

\* a second chunk is about to be submitted after the first one's job ended and
\* its merge was saved
C13_Witness ==
  /\ variant # "wecp"
  /\ pc = "call"
  /\ submitted = <<1>>
  /\ batch_num = 2
  /\ persists = 1
  /\ total_found >= 1
  /\ in_flight = {}

\* C14: merging a result into a record a second time changes no field of the
\* record: the record after two merges is the record after one, and its
\* website_urls_all and website_domains_all list each website once.
C14_MergeIdempotent ==
  (pc = "merged_twice") =>
    /\ entries = pre
    /\ \A i \in 1..Len(entries) :
         /\ Len(Split(entries[i].website_urls_all, "|")) <= 2
         /\ Len(Split(entries[i].website_domains_all, "|")) <= 2

\* a result with two websites was merged twice into a record that listed two
\* other websites
C14_Witness ==
  /\ pc = "merged_twice"
  /\ variant \in {"detail", "missing"}
  /\ dataset[1].kind = "item"
  /\ Len(dataset[1].websites) = 2
  /\ file.rows[1].website_urls_all # <<>>
  /\ entries[1].website_urls_all = Join(dataset[1].websites, Pipe)
  /\ entries[1].website_urls_all # file.rows[1].website_urls_all

\* the domain of a URL as the Domain Normalizer is described: "" for an empty
\* or whitespace-only URL, otherwise the host without regard to the scheme
\* (http or https in any letter case, or none), in lower case, without a
\* leading "www." and without a trailing ":port"
RefDomain(url) ==
  LET s    == Lower(Strip(url))
      rest == IF StartsWith(s, HttpPrefix) THEN Drop(s, Len(HttpPrefix))
              ELSE IF StartsWith(s, HttpsPrefix) THEN Drop(s, Len(HttpsPrefix))
              ELSE s
      host == Take(rest, FindFirst(rest, {"/", "?", "#"}) - 1)
      name == Take(host, FindFirst(host, {":"}) - 1)
  IN  IF StartsWith(name, WwwPrefix) THEN Drop(name, Len(WwwPrefix)) ELSE name

\* the websites the chunk's mapping holds for record i
WebsitesFor(i) ==
  IF ~HasResult(i) THEN <<>>
  ELSE IF variant = "missing" THEN results[i].websites
  ELSE results[pre[i].detail_url].websites

\* C15: after a merge, a submitted record whose result has k >= 1 websites has
\* the first one as website_url_primary and its normalized domain as
\* website_domain_primary; for k > 1 its website_count is k and its
\* website_urls_all and website_domains_all are the websites and their
\* normalized domains, joined by "|" in the order of the result.
C15_PrimaryAndMultiFields ==
  ChunkMerged =>
    \A p \in 1..Len(urls) :
      LET ws == WebsitesFor(urls[p])
          e  == entries[urls[p]]
      IN  /\ ws # <<>> =>
               /\ e.website_url_primary = ws[1]
               /\ e.website_domain_primary = RefDomain(ws[1])
          /\ Len(ws) > 1 =>
               /\ e.website_count = IntStr(Len(ws))
               /\ e.website_urls_all = Join(ws, Pipe)
               /\ e.website_domains_all =
                    Join([k \in 1..Len(ws) |-> RefDomain(ws[k])], Pipe)

\* the records that had no website_url_primary before the merge and have one
\* after it
Gained ==
  {i \in 1..Len(entries) :
     pre[i].website_url_primary = <<>> /\ entries[i].website_url_primary # <<>>}

\* C16 as claimed: the number the merge returns is the number of records whose
\* website_url_primary was empty before the merge and is non-empty after it.
C16_ReturnsGained == ChunkMerged => updated = Cardinality(Gained)

\* C16 as amended: the number the merge returns is the number of submitted
\* records whose result has at least one website; in the missing and wecp
\* scripts, whose submitted records have no website_url_primary, it is the
\* number of records that gained one.
C16_ReturnsRecordsWithWebsite ==
  ChunkMerged =>
    /\ updated = Cardinality({i \in Range(urls) : WebsitesFor(i) # <<>>})
    /\ variant # "detail" => updated = Cardinality(Gained)

\* the detail script counted a record that already had a website
C16_Witness ==
  /\ ChunkMerged
  /\ variant = "detail"
  /\ updated = 2
  /\ \E i \in Range(urls) :
       /\ pre[i].website_url_primary # <<>>
       /\ WebsitesFor(i) # <<>>
       /\ entries[i].website_url_primary = WebsitesFor(i)[1]

\* C17: every row of the store file has a value for each field of the header
\* and for no other field, and every store a merge has produced can be
\* written: each key of each record is a field of the header the save writes,
\* so that no write of a merged store raises for a key outside the header.
C17_FieldSetConsistent ==
  /\ \A i \in 1..Len(file.rows) : file.rows[i].keys = Range(file.header)
  /\ ChunkMerged =>
       \A h \in HeadersToWrite :
         \A i \in 1..Len(entries) : entries[i].keys \subseteq Range(h)

\* the columns of a header that are not base columns, in the header's order
ExtrasInOrder(header) == SelectSeq(header, LAMBDA c : c \notin Range(BaseCols))

\* C18: a rewrite of the store writes the base columns in their fixed order,
\* followed by the other columns in the order they had in the file that was
\* read; a rewrite that does not change the set of columns does not change
\* the header.
C18_HeaderOrderPreserved ==
  (pc = "rewrite" /\ persists >= 1) =>
    /\ file.header = BaseCols \o ExtrasInOrder(checkpoint.header)
    /\ Range(file.header) = Range(checkpoint.header) =>
         file.header = checkpoint.header

\* C19: the domain a script derives from a URL is the domain of the URL as
\* the Domain Normalizer is described (RefDomain); for
\* "HTTP://WWW.Example.com:8080/x" it is "example.com".
C19_NormalizerMatchesReference ==
  (pc \in {"round_trip", "normalized"}) =>
    entries[1].website_domain_primary = RefDomain(entries[1].website_url_primary)

\* a URL with the scheme http or https, in any letter case
IsAbsoluteUrl(url) ==
  StartsWith(Lower(url), HttpPrefix) \/ StartsWith(Lower(url), HttpsPrefix)

\* C20: for an absolute URL u, normalize_domain of the domain of u written as
\* an https URL is the domain of u.
C20_NormalizerFixedPoint ==
  (variant # "wecp" /\ pc = "normalized"
     /\ IsAbsoluteUrl(entries[1].website_url_primary)) =>
    entries[2].website_domain_primary = entries[1].website_domain_primary

\* the records that had no website_url_primary when the store was loaded
MissingAtLoad == {i \in 1..Len(loaded) : ~Has(loaded[i], "website_url_primary")}

\* the records of the chunks that were passed to the remote service
SubmittedRecords ==
  {i \in 1..Len(loaded) :
     /\ loaded[i].detail_url # ""
     /\ \E k \in Range(submitted) : k <= Len(chunks) /\ i \in Range(chunks[k])}

\* C21: a run of the missing script has ended (with the summary, or with an
\* exception other than an OSError of the file system); every record without a
\* website had a detail_url and the remote service returned a website for every
\* submitted record.  Then the chunks are exactly the indices of the records
\* that had no website, each of them has a website_url_primary and its
\* normalized domain (for the last chunk: the first website of its item), the
\* other records are as they were loaded, and every row of the store file has
\* a website_url_primary.
C21_EndToEndRescrape ==
  (/\ variant = "missing"
   /\ pc \in {"done", "aborted"}
   /\ writeError # "OSError"
   /\ \A i \in MissingAtLoad : loaded[i].detail_url # ""
   /\ total_found = Cardinality(SubmittedRecords)) =>
    /\ Concat(chunks) = Ascending(MissingAtLoad, Len(loaded))
    /\ Len(entries) = Len(loaded)
    /\ \A i \in MissingAtLoad :
         /\ entries[i].website_url_primary # <<>>
         /\ entries[i].website_domain_primary = RefDomain(entries[i].website_url_primary)
         /\ \A p \in ItemsFor(i) :
              entries[i].website_url_primary = dataset[p].websites[1]
    /\ \A i \in 1..Len(loaded) : i \notin MissingAtLoad => entries[i] = loaded[i]
    /\ FileCurrent
    /\ \A i \in 1..Len(file.rows) : file.rows[i].website_url_primary # <<>>

\* a report has been produced from the final store
Reported ==
  \/ variant = "detail" /\ pc = "done"
  \/ variant \in ScraperVariants /\ pc = "reported"

\* the number of records of the store whose field f is a non-empty string
NonEmptyCount(f) == Cardinality({i \in 1..Len(entries) : entries[i][f] # Blank(f)})

\* C22: in every report (detail script, listing scraper) and for every field
\* of its coverage table, present is the number of records of the final store
\* whose value is a non-empty string, missing is total minus present, the two
\* add up to the number of records, and the coverage is 100*present/total to
\* the nearest tenth of a percent; the store a report is made from is never
\* empty, so the division is defined.
C22_SummaryCounts ==
  Reported =>
    /\ locals.total = Len(entries)
    /\ locals.total > 0
    /\ \A f \in DOMAIN locals.present :
         /\ locals.present[f] = NonEmptyCount(f)
         /\ locals.missing[f] = locals.total - locals.present[f]
         /\ locals.present[f] + locals.missing[f] = locals.total
         /\ LET d == 10 * locals.coverage[f] * locals.total - 10000 * locals.present[f]
            IN  d <= 5 * locals.total /\ -d <= 5 * locals.total

\* a report whose coverage is not a whole number of tenths: two of three
\* records have the field
C22_Witness ==
  /\ Reported
  /\ locals.total = 3
  /\ \E f \in DOMAIN locals.present : locals.present[f] = 2 /\ locals.coverage[f] = 667

\* the areas of the summarised installers, the number of installers of an
\* area and the position of its first installer
AllAreas == {AreaOf(entries[i]) : i \in 1..Len(entries)}

AreaCount(a) == Cardinality({i \in 1..Len(entries) : AreaOf(entries[i]) = a})

FirstSeenAt(a) ==
  CHOOSE i \in 1..Len(entries) :
    AreaOf(entries[i]) = a /\ \A j \in 1..(i - 1) : AreaOf(entries[j]) # a

\* C23: the area ranking of the listing scraper's summary has at most 15
\* lines (all areas when there are fewer), each a different area with its
\* number of installers, in descending order of that number; two areas with
\* the same number are in the order in which they were first seen; and no area
\* left out would rank before a listed one.
C23_TopAreas ==
  (variant \in ScraperVariants /\ pc = "reported" /\ Len(entries) > 0) =>
    LET top == locals.sorted_areas
    IN  /\ Len(top) = Min(TopN, Cardinality(AllAreas))
        /\ \A k \in 1..Len(top) :
             top[k][1] \in AllAreas /\ top[k][2] = AreaCount(top[k][1])
        /\ \A k, l \in 1..Len(top) :
             k < l =>
               /\ top[k][1] # top[l][1]
               /\ top[k][2] >= top[l][2]
               /\ top[k][2] = top[l][2] => FirstSeenAt(top[k][1]) < FirstSeenAt(top[l][1])
        /\ \A a \in AllAreas \ {top[k][1] : k \in 1..Len(top)} :
             \A k \in 1..Len(top) :
               \/ top[k][2] > AreaCount(a)
               \/ top[k][2] = AreaCount(a) /\ FirstSeenAt(top[k][1]) < FirstSeenAt(a)

\* more than 15 areas; the area seen last has the most installers and leads
\* the ranking, the areas behind it are tied
C23_Witness ==
  /\ variant \in ScraperVariants
  /\ pc = "reported"
  /\ Cardinality(AllAreas) > TopN
  /\ locals.sorted_areas[1] = <<AreaNames[MaxAreas], 2>>
  /\ locals.sorted_areas[2][2] = locals.sorted_areas[3][2]
  /\ Len(locals.sorted_areas) = TopN

\* the response failed: the request raised or the status is not 200
FailedResponse(r) == r.raised \/ r.status_code # 200

\* what holds of get_soup in every state: the number of requests, the return
\* at the first 200, and None exactly after max_retries failures
SoupSafe ==
  variant = "get_soup" =>
    /\ Len(locals.responses) <= locals.max_retries
    /\ \A k \in 1..(Len(locals.responses) - 1) : FailedResponse(locals.responses[k])
    /\ (pc = "soup_loop") = (locals.returned = "nothing")
    /\ pc = "soup_loop" => \A k \in 1..Len(locals.responses) : FailedResponse(locals.responses[k])
    /\ locals.returned = "soup" =>
         /\ pc = "soup_returned"
         /\ locals.responses # <<>>
         /\ ~FailedResponse(locals.responses[Len(locals.responses)])
    /\ locals.returned = "None" <=>
         /\ pc = "soup_returned"
         /\ Len(locals.responses) = locals.max_retries
         /\ \A k \in 1..Len(locals.responses) : FailedResponse(locals.responses[k])

Deduplicated ==
  variant \in ScraperVariants /\ pc \in {"report", "returned"} /\ loaded # <<>>

\* C25: after the deduplication of a collected installer list, no two entries
\* of the list share a non-empty detail_url, the list is the collected list
\* without the dropped entries and in its order, an entry with a detail_url
\* is kept only as the first entry with that url, an entry is dropped only
\* when an earlier entry has the same detail_url, and what is saved is that
\* list.
C25_DedupByDetailUrl ==
  Deduplicated =>
    /\ \A i, j \in 1..Len(entries) :
         (i # j /\ entries[i].detail_url # "") => entries[i].detail_url # entries[j].detail_url
    /\ entries = Keep(loaded, locals.kept)
    /\ \A i \in 1..Len(loaded) :
         /\ (i \in locals.kept /\ loaded[i].detail_url # "") =>
              \A j \in 1..(i - 1) : loaded[j].detail_url # loaded[i].detail_url
         /\ i \notin locals.kept =>
              \E j \in 1..(i - 1) : loaded[j].detail_url = loaded[i].detail_url
    /\ pc = "report" => file.rows = entries

\* the two records are the same installer
SameIdentity(r, s) == \A f \in IdentityFields : r[f] = s[f]

\* C26: in every state of the store file and in every variant, a row of the
\* file whose installer had a website_url_primary when the store was loaded
\* has a website_url_primary; this includes the states in which the run has
\* stopped early.
C26_NoWebsiteLost ==
  \A k \in 1..Len(file.rows) :
    \A i \in 1..Len(loaded) :
      (SameIdentity(loaded[i], file.rows[k]) /\ loaded[i].website_url_primary # <<>>)
        => file.rows[k].website_url_primary # <<>>

\* the number of entries of a pipe-separated list
PipeCount(s) == IF s = <<>> THEN 0 ELSE Len(Split(s, "|"))

\* the multi-website fields of record r agree with its primary website
MultiConsistent(r) ==
  r.website_count # "" =>
    /\ r.website_count = IntStr(PipeCount(r.website_urls_all))
    /\ r.website_urls_all # <<>>
    /\ r.website_url_primary = Split(r.website_urls_all, "|")[1]

\* C27: a record whose website_count is non-empty has as many pipe-separated
\* entries in website_urls_all as website_count says, and its
\* website_url_primary is the first of them; this holds of every record at
\* load and of every record of a chunk when the chunk has been merged.
C27_MultiFieldsConsistent ==
  /\ pc = "start" => \A i \in 1..Len(entries) : MultiConsistent(entries[i])
  /\ ChunkMerged => \A i \in Range(urls) : MultiConsistent(entries[i])

\* the records of the chunk that is being processed
CurrentChunk == IF chunks = <<>> THEN {} ELSE Range(chunks[Len(chunks)])

C29_RescrapeAccounting ==
  (variant = "missing" /\ pc = "done") =>
    /\ locals.initially_missing = Cardinality(MissingAtLoad)
    /\ locals.still_missing =
         Cardinality({i \in 1..Len(entries) : entries[i].website_url_primary = <<>>})
    /\ locals.newly_found = total_found
    /\ locals.newly_found + locals.still_missing = locals.initially_missing

\* a run of two chunks that found a website for one of two records
C29_Witness ==
  /\ variant = "missing"
  /\ pc = "done"
  /\ Len(chunks) = 2
  /\ locals.initially_missing = 2
  /\ locals.newly_found = 1
  /\ locals.still_missing = 1

\* the frame holds the corrected values and the flags of the correction
Corrected ==
  \/ variant = "fix_negative_values" /\ pc = "covid_written"
  \/ variant = "update_final_inplace" /\ pc = "covid_flagged"

\* C30: in the corrected frame no New Cases or New Deaths value is negative,
\* a value that was not negative is unchanged, a negative one is 0, and a row's
\* New Cases_fixed (New Deaths_fixed) is True exactly when its original New
\* Cases (New Deaths) was negative.
C30_FlagsExactlyTheFixed ==
  Corrected =>
    /\ Len(entries) = Len(loaded)
    /\ \A i \in 1..Len(entries) :
         /\ entries[i].New_Cases >= 0 /\ entries[i].New_Deaths >= 0
         /\ loaded[i].New_Cases >= 0 => entries[i].New_Cases = loaded[i].New_Cases
         /\ loaded[i].New_Deaths >= 0 => entries[i].New_Deaths = loaded[i].New_Deaths
         /\ entries[i].New_Cases_fixed <=> loaded[i].New_Cases < 0
         /\ entries[i].New_Deaths_fixed <=> loaded[i].New_Deaths < 0

====
